---- MODULE Spec2Model ----
(***************************************************************************)
(* Patient record management API (src/main_pydantic.py): the pydantic      *)
(* models Patient and PateintUpdate, the whole-file store load_data /      *)
(* save_data over pateints.json, and the request handlers view,            *)
(* view_pateint, sort, create_pateint, update_pateint, delete_pateint.     *)
(*                                                                         *)
(* Representation.                                                         *)
(*  - A Python dict is a record [keys, val]: keys is the insertion order   *)
(*    (which json.dump / json.load keep), val the mapping.                 *)
(*  - A stored patient record is a function from field names to values.    *)
(*  - height is counted in tenths of a metre (20 is 2.0 m), weight in kg.  *)
(*    bmi = weight / height**2 is the exact fraction <<num, den>> in       *)
(*    lowest terms (100 * weight over height squared, in these units).     *)
(*  - Request bodies carry values of the declared JSON types only; a body  *)
(*    of the wrong type is rejected by the same 422 path as a value out of *)
(*    range and is not enumerated separately.                              *)
(***************************************************************************)
EXTENDS Integers, Sequences, FiniteSets, TLC

VARIABLES file, torn, pc, data, req, resp, nreq, probe

vars == <<file, torn, pc, data, req, resp, nreq, probe>>

(***************************************************************************)
(* Bounds of the model.                                                    *)
(***************************************************************************)
\* Requests handled in one behaviour.
MaxReqs == 2
\* Largest weight (kg) drawn when the derivation is checked on its own.
MaxWeight == 125

(***************************************************************************)
(* Program constants.                                                      *)
(***************************************************************************)
\* Field(gt = 0, lt = 100) on age.
AgeLow == 0
AgeHigh == 100
\* Field(gt = 0, lt = 2.5) on height, in tenths of a metre.
HeightLow == 0
HeightHigh == 25
\* Field(gt = 0) on weight.
WeightLow == 0

Ids == {"P1", "P2"}
Procs == {1, 2}
BaseFields == {"name", "city", "age", "gender", "height", "weight"}
GenderLiteral == {"male", "female"}
valid_fields == {"height", "weight", "bmi"}
valid_orders == {"asc", "desc"}

(***************************************************************************)
(* Exact fractions, for bmi and its thresholds.                            *)
(***************************************************************************)
RECURSIVE Gcd(_, _)
Gcd(a, b) == IF b = 0 THEN a ELSE Gcd(b, a % b)

Frac(n, d) == <<n \div Gcd(n, d), d \div Gcd(n, d)>>

FLess(a, b) == a[1] * b[2] < b[1] * a[2]

FGeq(a, b) == ~FLess(a, b)

\* The literals 18.5, 25 and 30 of Patient.verdict.
T185 == <<37, 2>>
T25 == <<25, 1>>
T30 == <<30, 1>>

(***************************************************************************)
(* Python dict and str helpers.                                            *)
(***************************************************************************)
EmptyDict == [keys |-> <<>>, val |-> [k \in {} |-> {}]]

Has(d, k) == k \in DOMAIN d.val

DictSet(d, k, v) ==
  [keys |-> IF Has(d, k) THEN d.keys ELSE Append(d.keys, k),
   val  |-> [x \in (DOMAIN d.val) \cup {k} |-> IF x = k THEN v ELSE d.val[x]]]

DictDel(d, k) ==
  [keys |-> SelectSeq(d.keys, LAMBDA x : x # k),
   val  |-> [x \in (DOMAIN d.val) \ {k} |-> d.val[x]]]

Values(d) == [i \in 1..Len(d.keys) |-> d.val[d.keys[i]]]

\* The record rec without its key f.
Without(rec, f) == [g \in (DOMAIN rec) \ {f} |-> rec[g]]

\* str.lower() on the gender strings that occur.
Lower(s) ==
  CASE s = "Male" -> "male"
    [] s = "MALE" -> "male"
    [] s = "Female" -> "female"
    [] s = "FEMALE" -> "female"
    [] OTHER -> s

(***************************************************************************)
(* class Patient: validation, the computed fields and model_dump.          *)
(***************************************************************************)
PatientFields == BaseFields \cup {"id"}

\* Patient(**info) succeeds: every field is required; unknown keys of info
\* (a stored bmi, verdict) are ignored by the model.
PatientValid(info) ==
  /\ PatientFields \subseteq DOMAIN info
  /\ info["age"] > AgeLow /\ info["age"] < AgeHigh
  /\ info["gender"] \in GenderLiteral
  /\ info["height"] > HeightLow /\ info["height"] < HeightHigh
  /\ info["weight"] > WeightLow

\* The object Patient(**info) of a valid info: its declared fields only.
Patient(info) == [f \in PatientFields |-> info[f]]

bmi(self) == Frac(100 * self["weight"], self["height"] * self["height"])

\* verdict with each threshold counted to the lower band.
verdict_inclusive(self) ==
  IF ~FLess(T185, bmi(self)) THEN "Underweight"
  ELSE IF ~FLess(T25, bmi(self)) THEN "Normal"
  ELSE IF ~FLess(T30, bmi(self)) THEN "Overweight"
  ELSE "Obese"

verdict(self) ==
  IF FLess(bmi(self), T185) THEN "Underweight"
  ELSE IF FGeq(bmi(self), T185) /\ FLess(bmi(self), T25) THEN "Normal"
  ELSE IF FGeq(bmi(self), T25) /\ FLess(bmi(self), T30) THEN "Overweight"
  ELSE "Obese"

\* model_dump(): the declared fields and the two computed fields.
model_dump(self) ==
  [f \in PatientFields \cup {"bmi", "verdict"} |->
     IF f = "bmi" THEN bmi(self)
     ELSE IF f = "verdict" THEN verdict(self)
     ELSE self[f]]

\* model_dump(exclude='id'): the dump without the key id.
model_dump_exclude_id(self) ==
  [f \in (DOMAIN model_dump(self)) \ {"id"} |-> model_dump(self)[f]]

(***************************************************************************)
(* class PateintUpdate: every field optional.  A patch is [val, nulls]:    *)
(* val maps the fields sent with a value, nulls are the fields sent as     *)
(* null.                                                                   *)
(***************************************************************************)
PateintUpdateValid(patch) ==
  /\ ("age" \in DOMAIN patch.val) =>
        (patch.val["age"] > AgeLow /\ patch.val["age"] < AgeHigh)
  /\ ("gender" \in DOMAIN patch.val) => patch.val["gender"] \in GenderLiteral
  /\ ("height" \in DOMAIN patch.val) =>
        (patch.val["height"] > HeightLow /\ patch.val["height"] < HeightHigh)
  /\ ("weight" \in DOMAIN patch.val) => patch.val["weight"] > WeightLow

(***************************************************************************)
(* Responses.  exc is the exception that ended the handler ("" for none),  *)
(* status the HTTP status the framework answers with.                      *)
(***************************************************************************)
Response(status, exc, detail, body) ==
  [status |-> status, exc |-> exc, detail |-> detail, body |-> body]

HTTPException(status, detail) == Response(status, "HTTPException", detail, {})

\* The framework validates the declared body model before the handler runs.
RequestValidationError == Response(422, "RequestValidationError", "", {})

\* An exception the handler does not catch.
Unhandled(exc) == Response(500, exc, "Internal Server Error", {})

JSONResponse(message, status) == Response(status, "", message, {})

Returned(body) == Response(200, "", "", body)

\* What a handler does after load_data: its response, whether save_data is
\* called, and the dict it then writes.
Outcome(r, save, d) == [resp |-> r, save |-> save, data |-> d]

(***************************************************************************)
(* The store: pateints.json read and overwritten as one document.          *)
(***************************************************************************)
\* json.load of the document f.
load_data(f) == f

\* The document after open(.., "w") and json.dump(d) over the document f.
save_data(f, d) == d

(***************************************************************************)
(* The handlers, from load_data's result d on.                             *)
(***************************************************************************)
view(d) == Outcome(Returned(d), FALSE, d)

view_pateint(d, pateint_id) ==
  IF ~Has(d, pateint_id)
  THEN Outcome(HTTPException(404, "Pateint not found"), FALSE, d)
  ELSE Outcome(Returned(d.val[pateint_id]), FALSE, d)

\* sort's checks of its query parameters, made before load_data.
sort_invalid(sort_by, order) ==
  sort_by \notin valid_fields \/ order \notin valid_orders

\* The two checks of sort in the other order.
sort_rejection_order_first(sort_by, order) ==
  IF order \notin valid_orders
  THEN HTTPException(400, "Invalid order")
  ELSE HTTPException(400, "Invalid sort field")

sort_rejection(sort_by, order) ==
  IF sort_by \notin valid_fields
  THEN HTTPException(400, "Invalid sort field")
  ELSE HTTPException(400, "Invalid order")

\* sort writing the collection back after reading it.
sort_persisting(d, sort_by, order) ==
  IF \E k \in DOMAIN d.val : sort_by \notin DOMAIN d.val[k]
  THEN Outcome(Unhandled("KeyError"), FALSE, d)
  ELSE Outcome(Returned(d), TRUE, d)

\* sorted(..., key=lambda x: x[sort_by], ...) raises KeyError on a record
\* without the key; its result sorted_data is dropped and data is returned.
sort(d, sort_by, order) ==
  IF \E k \in DOMAIN d.val : sort_by \notin DOMAIN d.val[k]
  THEN Outcome(Unhandled("KeyError"), FALSE, d)
  ELSE Outcome(Returned(d), FALSE, d)

\* create_pateint storing the candidate's own fields, not its model_dump().
create_pateint_undumped(d, pateint) ==
  IF Has(d, pateint["id"])
  THEN Outcome(HTTPException(400, "Pateint already exists"), FALSE, d)
  ELSE Outcome(JSONResponse("Pateint created successfully", 201), TRUE,
               DictSet(d, pateint["id"], Patient(pateint)))

\* create_pateint without its check of pateint.id in data.
create_pateint_overwrite(d, pateint) ==
  Outcome(JSONResponse("Pateint created successfully", 201), TRUE,
          DictSet(d, pateint["id"], model_dump(Patient(pateint))))

create_pateint(d, pateint) ==
  IF Has(d, pateint["id"])
  THEN Outcome(HTTPException(400, "Pateint already exists"), FALSE, d)
  ELSE Outcome(JSONResponse("Pateint created successfully", 201), TRUE,
               DictSet(d, pateint["id"], model_dump(Patient(pateint))))

\* The non-null items of pateint_update.model_dump(exclude_unset=True):
\* PateintUpdate declares the base fields only, and a key of the body it
\* does not declare (an id) is not part of the object.
updated_pateint_info(patch) ==
  [f \in (DOMAIN patch.val) \cap BaseFields |-> patch.val[f]]

\* The merge adding the patch's weight to the stored weight.
merged_info_additive(existing, pateint_id, patch) ==
  LET upd  == updated_pateint_info(patch)
      over == [f \in (DOMAIN existing) \cup (DOMAIN upd) |->
                 IF f \notin DOMAIN upd THEN existing[f]
                 ELSE IF f = "weight" /\ f \in DOMAIN existing
                      THEN existing[f] + upd[f]
                 ELSE upd[f]]
      low  == [f \in DOMAIN over |->
                 IF f = "gender" THEN Lower(over[f]) ELSE over[f]]
  IN  [f \in (DOMAIN low) \cup {"id"} |->
         IF f = "id" THEN pateint_id ELSE low[f]]

\* The merge with a field sent as null taken as a value: the key is lost.
merged_info_nulls(existing, pateint_id, patch) ==
  LET upd  == updated_pateint_info(patch)
      over == [f \in ((DOMAIN existing) \cup (DOMAIN upd)) \ patch.nulls |->
                 IF f \in DOMAIN upd THEN upd[f] ELSE existing[f]]
      low  == [f \in DOMAIN over |->
                 IF f = "gender" THEN Lower(over[f]) ELSE over[f]]
  IN  [f \in (DOMAIN low) \cup {"id"} |->
         IF f = "id" THEN pateint_id ELSE low[f]]

\* Lines 122-137: the copy of the stored record with the non-null patch
\* fields laid over it, gender lower-cased, id set.
merged_info(existing, pateint_id, patch) ==
  LET upd  == updated_pateint_info(patch)
      over == [f \in (DOMAIN existing) \cup (DOMAIN upd) |->
                 IF f \in DOMAIN upd THEN upd[f] ELSE existing[f]]
      low  == [f \in DOMAIN over |->
                 IF f = "gender" THEN Lower(over[f]) ELSE over[f]]
  IN  [f \in (DOMAIN low) \cup {"id"} |->
         IF f = "id" THEN pateint_id ELSE low[f]]

\* update_pateint taking the record's key from an id sent in the body.
update_pateint_rekey(d, pateint_id, patch) ==
  IF ~Has(d, pateint_id)
  THEN Outcome(HTTPException(404, "Pateint not found"), FALSE, d)
  ELSE LET key  == IF "id" \in DOMAIN patch.val THEN patch.val["id"]
                   ELSE pateint_id
           info == merged_info(d.val[pateint_id], key, patch)
       IN  IF ~PatientValid(info)
           THEN Outcome(Unhandled("ValidationError"), FALSE, d)
           ELSE Outcome(JSONResponse("Pateint updated successfully", 200), TRUE,
                        DictSet(DictDel(d, pateint_id), key,
                                model_dump_exclude_id(Patient(info))))

\* update_pateint storing the merged dict without building a Patient.
update_pateint_unvalidated(d, pateint_id, patch) ==
  IF ~Has(d, pateint_id)
  THEN Outcome(HTTPException(404, "Pateint not found"), FALSE, d)
  ELSE Outcome(JSONResponse("Pateint updated successfully", 200), TRUE,
               DictSet(d, pateint_id,
                       Without(merged_info(d.val[pateint_id], pateint_id, patch),
                               "id")))

\* update_pateint keeping the stored bmi and verdict where there are any.
update_pateint_stale(d, pateint_id, patch) ==
  IF ~Has(d, pateint_id)
  THEN Outcome(HTTPException(404, "Pateint not found"), FALSE, d)
  ELSE LET info == merged_info(d.val[pateint_id], pateint_id, patch)
           new  == model_dump_exclude_id(Patient(info))
       IN  IF ~PatientValid(info)
           THEN Outcome(Unhandled("ValidationError"), FALSE, d)
           ELSE Outcome(JSONResponse("Pateint updated successfully", 200), TRUE,
                        DictSet(d, pateint_id,
                                [f \in DOMAIN new |->
                                   IF f \in {"bmi", "verdict"} /\ f \in DOMAIN info
                                   THEN info[f] ELSE new[f]]))

update_pateint(d, pateint_id, patch) ==
  IF ~Has(d, pateint_id)
  THEN Outcome(HTTPException(404, "Pateint not found"), FALSE, d)
  ELSE LET info == merged_info(d.val[pateint_id], pateint_id, patch)
       IN  IF ~PatientValid(info)
           THEN Outcome(Unhandled("ValidationError"), FALSE, d)
           ELSE Outcome(JSONResponse("Pateint updated successfully", 200), TRUE,
                        DictSet(d, pateint_id,
                                model_dump_exclude_id(Patient(info))))

\* delete_pateint answering a missing id as a deletion done.
\* delete saving an empty collection in place of the collection less one key.
delete_pateint_clear(d, pateint_id) ==
  IF ~Has(d, pateint_id)
  THEN Outcome(HTTPException(404, "Pateint not found"), FALSE, d)
  ELSE Outcome(JSONResponse("Pateint deleted successfully", 200), TRUE,
               EmptyDict)

delete_pateint_lenient(d, pateint_id) ==
  Outcome(JSONResponse("Pateint deleted successfully", 200), TRUE,
          DictDel(d, pateint_id))

\* delete_pateint saving the dict without the del.
delete_pateint_keep(d, pateint_id) ==
  IF ~Has(d, pateint_id)
  THEN Outcome(HTTPException(404, "Pateint not found"), FALSE, d)
  ELSE Outcome(JSONResponse("Pateint deleted successfully", 200), TRUE, d)

delete_pateint(d, pateint_id) ==
  IF ~Has(d, pateint_id)
  THEN Outcome(HTTPException(404, "Pateint not found"), FALSE, d)
  ELSE Outcome(JSONResponse("Pateint deleted successfully", 200), TRUE,
               DictDel(d, pateint_id))

(***************************************************************************)
(* Requests.  A request is a record whose op names the endpoint.           *)
(***************************************************************************)
Body(id, name, city, age, gender, height, weight) ==
  [id |-> id, name |-> name, city |-> city, age |-> age, gender |-> gender,
   height |-> height, weight |-> weight]

\* Two valid candidates: bmi 37/2 (2.0 m, 74 kg) and bmi 30 (1.0 m, 30 kg).
Ann(id) == Body(id, "Ann", "Pune", 30, "male", 20, 74)
Bob(id) == Body(id, "Bob", "Agra", 40, "female", 10, 30)

CreateBodies ==
  UNION {
    { Ann(id), Bob(id),
      [Ann(id) EXCEPT !["age"] = AgeLow],
      [Ann(id) EXCEPT !["age"] = AgeHigh],
      [Ann(id) EXCEPT !["gender"] = "Male"],
      [Ann(id) EXCEPT !["gender"] = "other"],
      [Ann(id) EXCEPT !["height"] = HeightLow],
      [Ann(id) EXCEPT !["height"] = HeightHigh],
      [Ann(id) EXCEPT !["weight"] = WeightLow],
      Without(Ann(id), "city") } : id \in Ids }

One(f, v) == [val |-> (f :> v), nulls |-> {}]

Patches ==
  { One("name", v) : v \in {"Ann", "Bob"} }
  \cup { One("city", v) : v \in {"Pune", "Agra"} }
  \cup { One("age", v) : v \in {30, 40, AgeLow, AgeHigh} }
  \cup { One("gender", v) : v \in {"male", "female", "FEMALE", "other"} }
  \cup { One("height", v) : v \in {10, 20, HeightLow, HeightHigh} }
  \cup { One("weight", v) : v \in {18, 74, 100, WeightLow} }
  \cup { [val |-> [f \in {} |-> {}], nulls |-> {}],
         [val |-> [f \in {} |-> {}], nulls |-> {"weight"}],
         [val |-> ("name" :> "Bob"), nulls |-> {"age"}],
         [val |-> ("weight" :> 100) @@ ("age" :> AgeHigh), nulls |-> {}],
         [val |-> ("weight" :> 18) @@ ("height" :> 10), nulls |-> {}],
         [val |-> ("id" :> "P2") @@ ("name" :> "Bob"), nulls |-> {}] }

SortFields == valid_fields \cup {"age"}
SortOrders == valid_orders \cup {"up"}

CreateReq(b) == [op |-> "create", pateint |-> b]
UpdateReq(id, patch) == [op |-> "update", id |-> id, patch |-> patch]
DeleteReq(id) == [op |-> "delete", id |-> id]
GetReq(id) == [op |-> "get", id |-> id]
ViewReq == [op |-> "view"]
SortReq(sort_by, order) == [op |-> "sort", sort_by |-> sort_by, order |-> order]
NoReq == [op |-> "none"]

\* The request is answered before the handler calls load_data: the body
\* fails its pydantic model, or sort's parameters fail its checks.
Rejected(r) ==
  \/ r.op = "create" /\ ~PatientValid(r.pateint)
  \/ r.op = "update" /\ ~PateintUpdateValid(r.patch)
  \/ r.op = "sort" /\ sort_invalid(r.sort_by, r.order)

Rejection(r) ==
  IF r.op = "sort" THEN sort_rejection(r.sort_by, r.order)
  ELSE RequestValidationError

\* The handler of request r run on the loaded dict d.
Handler(d, r) ==
  CASE r.op = "create" -> create_pateint(d, r.pateint)
    [] r.op = "update" -> update_pateint(d, r.id, r.patch)
    [] r.op = "delete" -> delete_pateint(d, r.id)
    [] r.op = "get"    -> view_pateint(d, r.id)
    [] r.op = "view"   -> view(d)
    [] r.op = "sort"   -> sort(d, r.sort_by, r.order)

\* A response with what the request did to the store: whether load_data and
\* save_data were called, whether it loaded while another request stood
\* between its own load and its save, and whether the request repeats the
\* one the process served just before.
Done(rsp, loaded, saved) ==
  [status |-> rsp.status, exc |-> rsp.exc, detail |-> rsp.detail,
   body |-> rsp.body, loaded |-> loaded, saved |-> saved, overlap |-> FALSE,
   repeat |-> FALSE]

NoResp == Done(Response(0, "", "", {}), FALSE, FALSE)

(***************************************************************************)
(* The contents pateints.json may start with.                              *)
(***************************************************************************)
\* Records written by hand: base fields only, gender capitalised; and one
\* with its height in centimetres, as the Field description has it.
LegacyMale == Without(Body("P1", "Cid", "Pune", 30, "Male", 20, 100), "id")
LegacyCm == Without(Body("P2", "Dev", "Agra", 40, "female", 1700, 60), "id")

SeedFiles ==
  { EmptyDict,
    DictSet(EmptyDict, "P1", model_dump(Patient(Ann("P1")))),
    DictSet(DictSet(EmptyDict, "P1", model_dump_exclude_id(Patient(Ann("P1")))),
            "P2", model_dump_exclude_id(Patient(Bob("P2")))),
    DictSet(DictSet(EmptyDict, "P2", model_dump_exclude_id(Patient(Bob("P2")))),
            "P1", LegacyMale),
    DictSet(EmptyDict, "P2", LegacyCm) }

NoProbe == [height |-> 1, weight |-> 1, bmi |-> <<0, 1>>, verdict |-> "", done |-> FALSE]

Init ==
  /\ file \in SeedFiles
  /\ torn = FALSE
  /\ pc = [p \in Procs |-> "idle"]
  /\ data = [p \in Procs |-> EmptyDict]
  /\ req = [p \in Procs |-> NoReq]
  /\ resp = [p \in Procs |-> NoResp]
  /\ nreq = 0
  /\ probe = NoProbe

(***************************************************************************)
(* Requests served one at a time: each action is a whole handler, from     *)
(* the framework's validation of the body to the response.                 *)
(***************************************************************************)
Serve(p, r) ==
  /\ nreq' = nreq + 1
  /\ req' = [req EXCEPT ![p] = r]
  /\ IF Rejected(r)
     THEN /\ file' = file
          /\ resp' = [resp EXCEPT ![p] =
                        [Done(Rejection(r), FALSE, FALSE)
                           EXCEPT !.repeat = (r = req[p])]]
     ELSE LET out == Handler(load_data(file), r)
          IN  /\ file' = IF out.save THEN save_data(file, out.data) ELSE file
              /\ resp' = [resp EXCEPT ![p] =
                            [Done(out.resp, TRUE, out.save)
                               EXCEPT !.repeat = (r = req[p])]]
  /\ UNCHANGED <<torn, pc, data, probe>>

View ==
  /\ nreq < MaxReqs
  /\ Serve(1, ViewReq)

ViewPateint ==
  /\ nreq < MaxReqs
  /\ \E id \in Ids : Serve(1, GetReq(id))

Sort ==
  /\ nreq < MaxReqs
  /\ \E f \in SortFields, o \in SortOrders : Serve(1, SortReq(f, o))

Create ==
  /\ nreq < MaxReqs
  /\ \E b \in CreateBodies : Serve(1, CreateReq(b))

Update ==
  /\ nreq < MaxReqs
  /\ \E id \in Ids, patch \in Patches : Serve(1, UpdateReq(id, patch))

Delete ==
  /\ nreq < MaxReqs
  /\ \E id \in Ids : Serve(1, DeleteReq(id))

Next == View \/ ViewPateint \/ Sort \/ Create \/ Update \/ Delete

Spec == Init /\ [][Next]_vars

(***************************************************************************)
(* Requests served concurrently.  Nothing guards load_data .. save_data,   *)
(* so a handler can be overtaken between its load and its save, and        *)
(* between save_data's open(.., "w"), which empties the file, and the      *)
(* write of the document when the file is closed.  torn says the file      *)
(* holds no complete JSON document.                                        *)
(***************************************************************************)
ConcRequests ==
  { CreateReq(Ann("P1")), CreateReq(Bob("P2")),
    UpdateReq("P1", One("weight", 100)), UpdateReq("P2", One("name", "Ann")),
    UpdateReq("P1", One("age", AgeHigh)),
    DeleteReq("P1"), DeleteReq("P2"), GetReq("P1"), ViewReq }

\* The request is answered without a load: rejected before the handler's
\* first line.
BeginRejected(p, r) ==
  /\ Rejected(r)
  /\ resp' = [resp EXCEPT ![p] = Done(Rejection(r), FALSE, FALSE)]
  /\ UNCHANGED <<file, torn, pc, data>>

\* load_data on a file that holds no complete document: json.load raises.
BeginTorn(p, r) ==
  /\ ~Rejected(r)
  /\ torn
  /\ resp' = [resp EXCEPT ![p] = Done(Unhandled("JSONDecodeError"), TRUE, FALSE)]
  /\ UNCHANGED <<file, torn, pc, data>>

BeginLoad(p, r) ==
  /\ ~Rejected(r)
  /\ ~torn
  /\ data' = [data EXCEPT ![p] = load_data(file)]
  /\ pc' = [pc EXCEPT ![p] = "loaded"]
  /\ resp' = [resp EXCEPT ![p] =
                [NoResp EXCEPT !.overlap = \E q \in Procs \ {p} : pc[q] = "loaded"]]
  /\ UNCHANGED <<file, torn>>

Begin(p) ==
  /\ pc[p] = "idle"
  /\ nreq < MaxReqs
  /\ nreq' = nreq + 1
  /\ \E r \in ConcRequests :
       /\ req' = [req EXCEPT ![p] = r]
       /\ (BeginRejected(p, r) \/ BeginTorn(p, r) \/ BeginLoad(p, r))
  /\ UNCHANGED probe

\* Finish with the file read again just before the handler changes it.
Finish_reload(p) ==
  /\ pc[p] = "loaded"
  /\ LET out == Handler(IF torn THEN data[p] ELSE load_data(file), req[p])
     IN  /\ data' = [data EXCEPT ![p] = out.data]
         /\ resp' = [resp EXCEPT ![p] =
                       [Done(out.resp, TRUE, out.save)
                          EXCEPT !.overlap = resp[p].overlap]]
         /\ IF out.save
            THEN /\ pc' = [pc EXCEPT ![p] = "writing"]
                 /\ torn' = TRUE
                 /\ file' = EmptyDict
            ELSE /\ pc' = [pc EXCEPT ![p] = "idle"]
                 /\ UNCHANGED <<file, torn>>
  /\ UNCHANGED <<req, nreq, probe>>

\* The handler from its load to its response or, when it saves, to
\* save_data's open(.., "w").
Finish(p) ==
  /\ pc[p] = "loaded"
  /\ LET out == Handler(data[p], req[p])
     IN  /\ data' = [data EXCEPT ![p] = out.data]
         /\ resp' = [resp EXCEPT ![p] =
                       [Done(out.resp, TRUE, out.save)
                          EXCEPT !.overlap = resp[p].overlap]]
         /\ IF out.save
            THEN /\ pc' = [pc EXCEPT ![p] = "writing"]
                 /\ torn' = TRUE
                 /\ file' = EmptyDict
            ELSE /\ pc' = [pc EXCEPT ![p] = "idle"]
                 /\ UNCHANGED <<file, torn>>
  /\ UNCHANGED <<req, nreq, probe>>

\* json.dump and the close of the file: the document is written from the
\* start of the file.  A writer whose file was written by another since it
\* opened it ("overlaid") writes over that document, which leaves a
\* complete document or, when the other document was longer, its tail.
Flush(p) ==
  /\ pc[p] \in {"writing", "overlaid"}
  /\ \/ /\ file' = save_data(file, data[p])
        /\ torn' = FALSE
     \/ /\ pc[p] = "overlaid"
        /\ file' = EmptyDict
        /\ torn' = TRUE
  /\ pc' = [q \in Procs |->
              IF q = p THEN "idle"
              ELSE IF pc[q] = "writing" THEN "overlaid" ELSE pc[q]]
  /\ UNCHANGED <<data, req, resp, nreq, probe>>

NextConc == \E p \in Procs : Begin(p) \/ Finish(p) \/ Flush(p)

SpecConc == Init /\ [][NextConc]_vars

(***************************************************************************)
(* The derivation on its own: Patient.bmi and Patient.verdict applied to   *)
(* every height the schema admits (tenths of a metre) and every weight up  *)
(* to MaxWeight.                                                           *)
(***************************************************************************)
InitDerive ==
  /\ file = EmptyDict
  /\ torn = FALSE
  /\ pc = [p \in Procs |-> "idle"]
  /\ data = [p \in Procs |-> EmptyDict]
  /\ req = [p \in Procs |-> NoReq]
  /\ resp = [p \in Procs |-> NoResp]
  /\ nreq = 0
  /\ \E h \in (HeightLow + 1)..(HeightHigh - 1), w \in (WeightLow + 1)..MaxWeight :
       probe = [height |-> h, weight |-> w, bmi |-> <<0, 1>>, verdict |-> "",
                done |-> FALSE]

Derive ==
  /\ ~probe.done
  /\ LET self == Patient(Body("P1", "Ann", "Pune", 30, "male",
                              probe.height, probe.weight))
     IN  probe' = [probe EXCEPT !.bmi = bmi(self), !.verdict = verdict(self),
                                !.done = TRUE]
  /\ UNCHANGED <<file, torn, pc, data, req, resp, nreq>>

NextDerive == Derive

SpecDerive == InitDerive /\ [][NextDerive]_vars

(***************************************************************************)
(* Properties.  Under Spec every step serves one request of process 1, so  *)
(* req[1] and resp[1] are the last request and its response, and a step    *)
(* with nreq' = nreq + 1 is that request being served on the unprimed      *)
(* store.                                                                  *)
(***************************************************************************)
Served == nreq' = nreq + 1

\* The constraints of section 3 of the specification on a record's base
\* fields, gender compared without regard to case.
SchemaViolated(rec) ==
  \/ ~(BaseFields \subseteq DOMAIN rec)
  \/ ~(rec["age"] > 0 /\ rec["age"] < 100)
  \/ Lower(rec["gender"]) \notin {"male", "female"}
  \/ ~(rec["height"] > 0 /\ rec["height"] < 25)
  \/ ~(rec["weight"] > 0)

\* The patch's values laid over the stored record.
Overlay(stored, val) ==
  [f \in (DOMAIN stored) \cup (DOMAIN val) |->
     IF f \in DOMAIN val THEN val[f] ELSE stored[f]]

\* bmi = weight / height^2 and the threshold table of section 3, in the
\* model's units (height in tenths of a metre), without fractions:
\* b is the fraction 100 w / h^2.
BmiIs(b, h, w) == b[2] > 0 /\ b[1] * h * h = 100 * w * b[2]

Band(h, w) ==
  IF 200 * w < 37 * h * h THEN "Underweight"
  ELSE IF 100 * w < 25 * h * h THEN "Normal"
  ELSE IF 100 * w < 30 * h * h THEN "Overweight"
  ELSE "Obese"

DuplicateCreate ==
  /\ Served
  /\ req'[1].op = "create"
  /\ "id" \in DOMAIN req'[1].pateint
  /\ Has(file, req'[1].pateint["id"])

\* C1, as stated: a Create whose id is already a key of the persisted
\* collection is answered 400 "already exists", calls no save and leaves
\* the persisted collection as it was.
C1_Original ==
  [][DuplicateCreate =>
       /\ resp'[1].status = 400
       /\ resp'[1].detail = "Pateint already exists"
       /\ ~resp'[1].saved
       /\ file' = file]_vars

\* C1, amended: a Create whose id is already a key calls no save and leaves
\* the persisted collection as it was; it is answered 400 "already exists"
\* when the candidate passes the Patient model, and 422 by the validation
\* of the body, before the handler runs, when it does not.
C1_DuplicateCreate ==
  [][DuplicateCreate =>
       /\ ~resp'[1].saved
       /\ file' = file
       /\ IF PatientValid(req'[1].pateint)
          THEN /\ resp'[1].status = 400
               /\ resp'[1].exc = "HTTPException"
               /\ resp'[1].detail = "Pateint already exists"
          ELSE /\ resp'[1].status = 422
               /\ ~resp'[1].loaded]_vars

\* A valid candidate named Bob was refused under an id whose stored record
\* still names Ann.
C1_Witness ==
  /\ nreq > 0
  /\ req[1].op = "create"
  /\ resp[1].status = 400
  /\ req[1].pateint["name"] = "Bob"
  /\ Has(file, req[1].pateint["id"])
  /\ file.val[req[1].pateint["id"]]["name"] = "Ann"

InvalidUpdate ==
  /\ Served
  /\ req'[1].op = "update"
  /\ Has(file, req'[1].id)
  /\ SchemaViolated(Overlay(file.val[req'[1].id], req'[1].patch.val))

\* C2: an Update of an existing id whose patch, or whose merged record,
\* violates a schema constraint ends in a validation error, calls no save
\* and leaves the persisted collection as it was.
C2_InvalidUpdateRejected ==
  [][InvalidUpdate =>
       /\ resp'[1].exc \in {"RequestValidationError", "ValidationError"}
       /\ ~resp'[1].saved
       /\ file' = file]_vars

\* A patch that is valid by itself was refused because the merged record is
\* not (the stored height is out of range), and the record is still stored.
C2_Witness ==
  /\ nreq > 0
  /\ req[1].op = "update"
  /\ PateintUpdateValid(req[1].patch)
  /\ "weight" \in DOMAIN req[1].patch.val
  /\ resp[1].exc = "ValidationError"
  /\ Has(file, req[1].id)
  /\ file.val[req[1].id]["weight"] # req[1].patch.val["weight"]

\* C3, as stated, for a record written by Create (one that stores its id):
\* a successful Update whose patch carries exactly one field leaves every
\* other field of the stored record, bmi and verdict apart, as it was.
C3_Original ==
  [][(/\ Served
      /\ req'[1].op = "update"
      /\ resp'[1].saved
      /\ Cardinality(DOMAIN req'[1].patch.val) = 1
      /\ req'[1].patch.nulls = {}
      /\ "id" \in DOMAIN file.val[req'[1].id])
     => \A f \in (DOMAIN file.val[req'[1].id])
                   \ ((DOMAIN req'[1].patch.val) \cup {"bmi", "verdict"}) :
          /\ f \in DOMAIN file'.val[req'[1].id]
          /\ file'.val[req'[1].id][f] = file.val[req'[1].id][f]]_vars

\* C4: every persisted record that stores bmi and verdict stores the bmi of
\* its own height and weight and the verdict of that bmi.
C4_DerivedConsistent ==
  \A k \in DOMAIN file.val :
    LET r == file.val[k]
    IN  ({"bmi", "verdict"} \subseteq DOMAIN r) =>
          /\ BmiIs(r["bmi"], r["height"], r["weight"])
          /\ r["verdict"] = Band(r["height"], r["weight"])

\* An Update of the weight alone moved a record (2.0 m) to bmi 25.
C4_Witness ==
  /\ nreq > 0
  /\ req[1].op = "update"
  /\ resp[1].saved
  /\ DOMAIN req[1].patch.val = {"weight"}
  /\ file.val[req[1].id]["weight"] = 100
  /\ file.val[req[1].id]["height"] = 20
  /\ file.val[req[1].id]["bmi"] = <<25, 1>>
  /\ file.val[req[1].id]["verdict"] = "Overweight"

(***************************************************************************)
(* Concurrent requests (SpecConc).                                         *)
(***************************************************************************)
IsWrite(r) == r.op \in {"create", "update", "delete"}

IdOf(r) == IF r.op = "create" THEN r.pateint["id"] ELSE r.id

\* The change the finished write request of process p made to its own
\* dict data[p] is present in the dict d.
Change(p, d) ==
  IF req[p].op = "delete" THEN ~Has(d, IdOf(req[p]))
  ELSE Has(d, IdOf(req[p])) /\ d.val[IdOf(req[p])] = data[p].val[IdOf(req[p])]

\* C5: when two write requests on different ids both load before either
\* saves and both save, both report success and the persisted collection
\* lacks the change of one of them (or holds no complete document at all).
C5_LostUpdate ==
  (/\ nreq = 2
   /\ \A p \in Procs : pc[p] = "idle" /\ IsWrite(req[p]) /\ resp[p].saved
   /\ IdOf(req[1]) # IdOf(req[2])
   /\ \E p \in Procs : resp[p].overlap)
  => /\ \A p \in Procs : resp[p].status \in {200, 201}
     /\ (torn \/ \E p \in Procs : ~Change(p, file))

\* Two Creates of different fresh ids were both answered 201 and the file,
\* a complete document, holds only one of the two records.
C5_Witness ==
  /\ nreq = 2
  /\ \A p \in Procs : pc[p] = "idle" /\ req[p].op = "create" /\ resp[p].status = 201
  /\ IdOf(req[1]) # IdOf(req[2])
  /\ ~torn
  /\ \E p \in Procs : ~Has(file, IdOf(req[p]))

(***************************************************************************)
(* Sequential requests (Spec), continued.                                  *)
(***************************************************************************)
KeyLeq(f, a, b) == IF f = "bmi" THEN ~FLess(b, a) ELSE a <= b

\* C6, as stated: a SortedView that succeeds returns the records ordered by
\* sort_by, non-decreasing for asc and non-increasing for desc.
C6_Original ==
  (nreq > 0 /\ req[1].op = "sort" /\ resp[1].status = 200) =>
    LET vs == Values(resp[1].body)
        f  == req[1].sort_by
    IN  \A i \in 1..(Len(vs) - 1) :
          IF req[1].order = "asc"
          THEN KeyLeq(f, vs[i][f], vs[i + 1][f])
          ELSE KeyLeq(f, vs[i + 1][f], vs[i][f])

\* C7: the GetOne that directly follows a successful Create, on the same
\* id, succeeds and returns the submitted base fields with the bmi and
\* verdict derived from the submitted height and weight.
C7_CreateThenGet ==
  [][(/\ req[1].op = "create"
      /\ resp[1].status = 201
      /\ Served
      /\ req'[1] = GetReq(req[1].pateint["id"]))
     => /\ resp'[1].status = 200
        /\ (BaseFields \cup {"bmi", "verdict"}) \subseteq DOMAIN resp'[1].body
        /\ \A f \in BaseFields : resp'[1].body[f] = req[1].pateint[f]
        /\ BmiIs(resp'[1].body["bmi"], req[1].pateint["height"],
                 req[1].pateint["weight"])
        /\ resp'[1].body["verdict"] =
             Band(req[1].pateint["height"], req[1].pateint["weight"])]_vars

\* The second of two requests is a GetOne that returned a record only a
\* Create of the candidate Bob can have written (it stores its id).
C7_Witness ==
  /\ nreq = 2
  /\ req[1].op = "get"
  /\ resp[1].status = 200
  /\ "id" \in DOMAIN resp[1].body
  /\ resp[1].body["name"] = "Bob"
  /\ resp[1].body["bmi"] = <<30, 1>>
  /\ resp[1].body["verdict"] = "Obese"

AfterDelete == nreq > 0 /\ req[1].op = "delete" /\ resp[1].status = 200

SameIdNext ==
  /\ Served
  /\ req'[1].op \in {"get", "update", "delete"}
  /\ req'[1].id = req[1].id

\* C8, as stated: after a successful Delete the id is no key of the
\* persisted collection, and the GetOne, Update or Delete that directly
\* follows on the same id fails with NotFound.
C8_Original ==
  /\ [](AfterDelete => ~Has(file, req[1].id))
  /\ [][(AfterDelete /\ SameIdNext) =>
          (resp'[1].status = 404 /\ resp'[1].detail = "Pateint not found")]_vars

\* C8, amended: as stated, except that an Update whose patch fails the
\* PateintUpdate model is answered 422 by the validation of the body,
\* before the handler runs; nothing is saved in either case.
C8_DeleteThenNotFound ==
  /\ [](AfterDelete => ~Has(file, req[1].id))
  /\ [][(AfterDelete /\ SameIdNext) =>
          /\ ~resp'[1].saved
          /\ file' = file
          /\ IF req'[1].op = "update" /\ ~PateintUpdateValid(req'[1].patch)
             THEN resp'[1].status = 422 /\ ~resp'[1].loaded
             ELSE /\ resp'[1].status = 404
                  /\ resp'[1].exc = "HTTPException"
                  /\ resp'[1].detail = "Pateint not found"]_vars

\* Of the two records of a seed one is left, and the second request, an
\* Update with a valid patch of the id that was deleted, was answered 404.
C8_Witness ==
  /\ nreq = 2
  /\ req[1].op = "update"
  /\ PateintUpdateValid(req[1].patch)
  /\ req[1].id = "P1"
  /\ resp[1].status = 404
  /\ file = DictSet(EmptyDict, "P2", model_dump_exclude_id(Patient(Bob("P2"))))

\* C9, as stated: a Create (of a fresh id) or an Update (of a stored id)
\* whose record satisfies the schema with gender read without regard to
\* case succeeds and stores the lower-case gender.
C9_Original ==
  [][(/\ Served
      /\ \/ /\ req'[1].op = "create"
            /\ "id" \in DOMAIN req'[1].pateint
            /\ ~Has(file, req'[1].pateint["id"])
            /\ ~SchemaViolated(req'[1].pateint)
         \/ /\ req'[1].op = "update"
            /\ Has(file, req'[1].id)
            /\ ~SchemaViolated(Overlay(file.val[req'[1].id], req'[1].patch.val)))
     => /\ resp'[1].status \in {200, 201}
        /\ resp'[1].saved
        /\ file'.val[IdOf(req'[1])]["gender"] \in {"male", "female"}]_vars

(***************************************************************************)
(* The derivation (SpecDerive).                                            *)
(***************************************************************************)
\* C10: for every valid height and weight, bmi is weight / height^2 and the
\* verdict is Underweight below 18.5, Normal from 18.5 to below 25,
\* Overweight from 25 to below 30 and Obese from 30 on.
C10_VerdictBands ==
  probe.done =>
    /\ BmiIs(probe.bmi, probe.height, probe.weight)
    /\ probe.verdict = Band(probe.height, probe.weight)
    /\ probe.verdict \in {"Underweight", "Normal", "Overweight", "Obese"}

\* bmi exactly 25 (2.0 m, 100 kg) was derived and is Overweight.
C10_Witness ==
  /\ probe.done
  /\ probe.height = 20
  /\ probe.weight = 100
  /\ probe.bmi = <<25, 1>>
  /\ probe.verdict = "Overweight"

(***************************************************************************)
(* Sequential requests (Spec): unknown ids, keys, frame of the handlers.   *)
(***************************************************************************)
UnknownId ==
  /\ Served
  /\ req'[1].op \in {"get", "update", "delete"}
  /\ ~Has(file, req'[1].id)

\* C11, as stated: GetOne, Update and Delete on an id that is no key of the
\* persisted collection are answered 404 "not found", and nothing is saved.
C11_Original ==
  [][UnknownId =>
       /\ resp'[1].status = 404
       /\ resp'[1].detail = "Pateint not found"
       /\ ~resp'[1].saved
       /\ file' = file]_vars

\* C11, amended: as stated, except that an Update whose patch fails the
\* PateintUpdate model is answered 422 by the validation of the body,
\* before the handler runs; nothing is saved in either case.
C11_UnknownIdNotFound ==
  [][UnknownId =>
       /\ ~resp'[1].saved
       /\ file' = file
       /\ IF req'[1].op = "update" /\ ~PateintUpdateValid(req'[1].patch)
          THEN resp'[1].status = 422 /\ ~resp'[1].loaded
          ELSE /\ resp'[1].status = 404
               /\ resp'[1].exc = "HTTPException"
               /\ resp'[1].detail = "Pateint not found"
               /\ resp'[1].loaded]_vars

\* A Delete of an id the collection, which holds another record, does not
\* have was answered 404.
C11_Witness ==
  /\ nreq > 0
  /\ req[1].op = "delete"
  /\ resp[1].status = 404
  /\ ~Has(file, req[1].id)
  /\ file.keys # <<>>

\* C12: a successful Update of id X leaves the keys of the persisted
\* collection and their order as they were, stores the updated record under
\* X, also when the body names another id, and leaves the records under the
\* other keys as they were.
C12_IdImmutable ==
  [][(Served /\ req'[1].op = "update" /\ resp'[1].saved) =>
       /\ DOMAIN file'.val = DOMAIN file.val
       /\ file'.keys = file.keys
       /\ Has(file', req'[1].id)
       /\ \A f \in (DOMAIN req'[1].patch.val) \cap BaseFields :
            file'.val[req'[1].id][f] = req'[1].patch.val[f]
       /\ \A k \in (DOMAIN file.val) \ {req'[1].id} :
            file'.val[k] = file.val[k]]_vars

\* An Update of P1 whose body names the id P2 succeeded, the new name is
\* stored under P1.
C12_Witness ==
  /\ nreq > 0
  /\ req[1].op = "update"
  /\ req[1].id = "P1"
  /\ "id" \in DOMAIN req[1].patch.val
  /\ req[1].patch.val["id"] = "P2"
  /\ resp[1].status = 200
  /\ Has(file, "P1")
  /\ file.val["P1"]["name"] = "Bob"

(***************************************************************************)
(* Concurrent requests (SpecConc), continued.                              *)
(***************************************************************************)
\* C13, as stated: a load made while another request saves observes a
\* complete collection, the one before the save or the one after it; no
\* request's load_data finds an empty or partly written document.
C13_Original ==
  \A p \in Procs : resp[p].loaded => resp[p].exc # "JSONDecodeError"

(***************************************************************************)
(* Sequential requests (Spec), continued.                                  *)
(***************************************************************************)
\* C14: List, GetOne and SortedView never call save and leave the persisted
\* collection as it was, whether they succeed or fail; a request that saves
\* or changes the persisted collection is a Create, Update or Delete that
\* succeeded.
C14_ReadsDoNotWrite ==
  [][Served =>
       /\ (req'[1].op \in {"view", "get", "sort"}) =>
            (~resp'[1].saved /\ file' = file)
       /\ (resp'[1].saved \/ file' # file) =>
            /\ req'[1].op \in {"create", "update", "delete"}
            /\ resp'[1].status \in {200, 201}
            /\ resp'[1].saved]_vars

\* A SortedView of a collection of two records succeeded and saved nothing.
C14_Witness ==
  /\ nreq > 0
  /\ req[1].op = "sort"
  /\ resp[1].status = 200
  /\ ~resp[1].saved
  /\ Len(file.keys) = 2

\* An Update of a stored id whose body passed the PateintUpdate model.
PatchedUpdate ==
  /\ Served
  /\ req'[1].op = "update"
  /\ Has(file, req'[1].id)
  /\ PateintUpdateValid(req'[1].patch)

\* The base fields the patch carries with a value.
Applied(patch) == (DOMAIN patch.val) \cap BaseFields

\* C15, as stated: a successful Update leaves every base field that the
\* patch does not carry, or carries as null, at its stored value; an Update
\* whose patch has no applicable field succeeds and leaves all base fields
\* as they were.
C15_Original ==
  [][PatchedUpdate =>
       LET id     == req'[1].id
           stored == file.val[id]
           held   == (BaseFields \cap DOMAIN stored) \ Applied(req'[1].patch)
       IN  /\ resp'[1].saved =>
                \A f \in held : file'.val[id][f] = stored[f]
           /\ Applied(req'[1].patch) = {} =>
                /\ resp'[1].status = 200
                /\ \A f \in held : file'.val[id][f] = stored[f]]_vars

\* C15, amended: a successful Update stores, for every base field, the
\* patch's value where the patch carries one and otherwise the stored
\* value, a stored gender in lower case; an Update whose patch has no
\* applicable field succeeds exactly when the stored record, its gender
\* read without regard to case, satisfies the schema, and otherwise fails
\* with nothing saved.
C15_PatchApplied ==
  [][PatchedUpdate =>
       LET id     == req'[1].id
           stored == file.val[id]
           val    == req'[1].patch.val
       IN  /\ resp'[1].saved =>
                \A f \in BaseFields :
                  file'.val[id][f] =
                    IF f \in Applied(req'[1].patch) THEN val[f]
                    ELSE IF f = "gender" THEN Lower(stored[f])
                    ELSE stored[f]
           /\ Applied(req'[1].patch) = {} =>
                /\ (resp'[1].status = 200) <=> ~SchemaViolated(stored)
                /\ resp'[1].saved <=> ~SchemaViolated(stored)
           /\ ~resp'[1].saved => file' = file]_vars

\* An Update that sent the name and a null age succeeded: the name is the
\* patch's, the age (30 in every seed and candidate named Ann) is kept.
C15_Witness ==
  /\ nreq > 0
  /\ req[1].op = "update"
  /\ req[1].patch.nulls = {"age"}
  /\ resp[1].status = 200
  /\ file.val[req[1].id]["name"] = "Bob"
  /\ file.val[req[1].id]["age"] = 30

\* C16: SortedView fails with InvalidArgument (HTTP 400) whenever sort_by
\* is not one of height, weight, bmi or order is not one of asc, desc; the
\* failure comes before the collection is loaded (and nothing is saved),
\* and with both invalid it is the sort field that is reported.
C16_SortRejected ==
  (nreq > 0 /\ req[1].op = "sort"
     /\ sort_invalid(req[1].sort_by, req[1].order))
  => /\ resp[1].status = 400
     /\ resp[1].exc = "HTTPException"
     /\ ~resp[1].loaded
     /\ ~resp[1].saved
     /\ resp[1].detail = IF req[1].sort_by \notin {"height", "weight", "bmi"}
                         THEN "Invalid sort field"
                         ELSE "Invalid order"

\* A SortedView by age in the order up was answered 400 for its sort field,
\* over a collection that holds records.
C16_Witness ==
  /\ nreq > 0
  /\ req[1] = SortReq("age", "up")
  /\ resp[1].status = 400
  /\ resp[1].detail = "Invalid sort field"
  /\ ~resp[1].loaded
  /\ file.keys # <<>>

\* The key set of a collection.
KeySet(d) == { k \in Ids : Has(d, k) }

\* C17: when requests run one at a time, a successful Create, Update or
\* Delete of id X leaves every record stored under another id unchanged,
\* and changes the key set by exactly this: Create adds X (which was not a
\* key), Delete removes X (which was one), Update changes nothing.
C17_OthersUntouched ==
  [][(Served /\ IsWrite(req'[1]) /\ resp'[1].status \in {200, 201}) =>
       LET X == IdOf(req'[1])
       IN  /\ \A k \in KeySet(file) \ {X} :
                Has(file', k) /\ file'.val[k] = file.val[k]
           /\ req'[1].op = "create" =>
                X \notin KeySet(file) /\ KeySet(file') = KeySet(file) \cup {X}
           /\ req'[1].op = "delete" =>
                X \in KeySet(file) /\ KeySet(file') = KeySet(file) \ {X}
           /\ req'[1].op = "update" =>
                X \in KeySet(file) /\ KeySet(file') = KeySet(file)]_vars

\* A Delete succeeded on a collection of two records: the other one is
\* still stored.
C17_Witness ==
  /\ nreq > 0
  /\ req[1].op = "delete"
  /\ resp[1].status = 200
  /\ resp[1].saved
  /\ ~Has(file, req[1].id)
  /\ Len(file.keys) = 1

\* C18: Update is idempotent: when requests run one at a time, an Update
\* that repeats the Update served just before it (same id, same patch)
\* leaves the persisted collection as the first one left it, and is
\* answered as the first one was.
C18_UpdateIdempotent ==
  [][(/\ nreq > 0
      /\ req[1].op = "update"
      /\ Served
      /\ req'[1] = req[1])
     => /\ file' = file
        /\ resp'[1].status = resp[1].status
        /\ resp'[1].body = resp[1].body]_vars

\* The Update of the weight to 100 was served twice in a row, both times
\* with success, and the stored weight is 100.
C18_Witness ==
  /\ nreq = 2
  /\ req[1].op = "update"
  /\ resp[1].repeat
  /\ resp[1].status = 200
  /\ resp[1].saved
  /\ req[1].patch = One("weight", 100)
  /\ file.val[req[1].id]["weight"] = 100

====
